---- MODULE Spec2Model ----
(***************************************************************************)
(* AI Starter Quest (src/main.py): a Streamlit chat flow of three modules, *)
(* with per-session state (progress, badges, module, messages, quiz score, *)
(* email flag) and a Gemini hint client with a per-session cache and a     *)
(* cooldown.                                                               *)
(*                                                                         *)
(* Texts are sequences of strings.  Whatever the code inspects character   *)
(* by character (user input, provider text, error messages) is a sequence  *)
(* of one-character strings; fixed literals the code only passes around    *)
(* are one token each.  Time is counted in ticks of 1/TicksPerSec second,  *)
(* so that int(next_ok - now) is a real truncation.                        *)
(***************************************************************************)
EXTENDS Naturals, Integers, Sequences, FiniteSets, TLC

(* ------------------------------ bounds -------------------------------- *)
\* ticks per second of the modelled wall clock
TicksPerSec == 2
\* the clock is observed during its first MaxTimeSec seconds
MaxTimeSec == 30
\* messages of one session (the exploration is capped, not the program)
MaxMsgs == 14
\* 'Get a hint' presses of one session
MaxHints == 1
\* chat inputs of one session when the learner types from WideInputs
MaxWideInputs == 3

(* ------------------------- program constants -------------------------- *)
AI_COACH_ENABLED == FALSE
HINT_COOLDOWN_SEC == 30
CooldownTicks == HINT_COOLDOWN_SEC * TicksPerSec

(* ------------------------- string primitives -------------------------- *)
UpperChars == <<"A","B","C","D","E","F","G","H","I","J","K","L","M",
                "N","O","P","Q","R","S","T","U","V","W","X","Y","Z">>
LowerChars == <<"a","b","c","d","e","f","g","h","i","j","k","l","m",
                "n","o","p","q","r","s","t","u","v","w","x","y","z">>
Whitespace == {" ", "\t", "\n"}

LowerChar(c) ==
    IF \E i \in 1..26 : UpperChars[i] = c
    THEN LowerChars[CHOOSE i \in 1..26 : UpperChars[i] = c]
    ELSE c
UpperChar(c) ==
    IF \E i \in 1..26 : LowerChars[i] = c
    THEN UpperChars[CHOOSE i \in 1..26 : LowerChars[i] = c]
    ELSE c

\* str.lower(), str.upper()
Lower(s) == [i \in 1..Len(s) |-> LowerChar(s[i])]
Upper(s) == [i \in 1..Len(s) |-> UpperChar(s[i])]

\* a strip that strips nothing
StripNothing(s) == s

\* str.strip(): drop leading and trailing whitespace
Strip(s) ==
    LET keep == {i \in 1..Len(s) : s[i] \notin Whitespace}
    IN  IF keep = {} THEN <<>>
        ELSE LET lo == CHOOSE i \in keep : \A j \in keep : i <= j
                 hi == CHOOSE i \in keep : \A j \in keep : j <= i
             IN  SubSeq(s, lo, hi)

\* sub in s
Contains(sub, s) ==
    \E i \in 0..(Len(s) - Len(sub)) : SubSeq(s, i + 1, i + Len(sub)) = sub

\* s.startswith("(")
StartsWithParen(s) == Len(s) > 0 /\ s[1] = "("

(* ------------------------------- state -------------------------------- *)
VARIABLES
    progress,          \* st.session_state.progress
    badges,            \* st.session_state.badges
    module,            \* st.session_state.module
    messages,          \* st.session_state.messages
    quiz_correct,      \* st.session_state.quiz_correct
    email_captured,    \* st.session_state.email_captured
    gemini_ready,      \* st.session_state.gemini_ready
    gemini_cache,      \* st.session_state.gemini_cache (absent = empty)
    next_hint_ok_ts,   \* st.session_state.next_hint_ok_ts (absent = 0), in ticks
    clock,             \* the last value time.time() returned, in ticks
    provider_calls,    \* the generate_content calls of this session, in order
    last_reply,        \* the latest return of gemini_reply in this session
    replies,           \* every (key, text, branch) gemini_reply returned in this session
    module_writes      \* the assignments to module of the latest route call, <<old, new>>

vars == <<progress, badges, module, messages, quiz_correct, email_captured,
          gemini_ready, gemini_cache, next_hint_ok_ts, clock,
          provider_calls, last_reply, replies, module_writes>>

\* the program's state as one value, for the handlers to thread through
State ==
    [progress |-> progress, badges |-> badges, module |-> module,
     messages |-> messages, quiz_correct |-> quiz_correct,
     email_captured |-> email_captured, gemini_ready |-> gemini_ready,
     gemini_cache |-> gemini_cache, next_hint_ok_ts |-> next_hint_ok_ts,
     clock |-> clock, provider_calls |-> provider_calls,
     last_reply |-> last_reply, replies |-> replies,
     module_writes |-> module_writes]

Commit(s) ==
    /\ progress' = s.progress
    /\ badges' = s.badges
    /\ module' = s.module
    /\ messages' = s.messages
    /\ quiz_correct' = s.quiz_correct
    /\ email_captured' = s.email_captured
    /\ gemini_ready' = s.gemini_ready
    /\ gemini_cache' = s.gemini_cache
    /\ next_hint_ok_ts' = s.next_hint_ok_ts
    /\ clock' = s.clock
    /\ provider_calls' = s.provider_calls
    /\ last_reply' = s.last_reply
    /\ replies' = s.replies
    /\ module_writes' = s.module_writes

EmptyMap == [k \in {} |-> <<>>]
NoReply == [key |-> <<>>, text |-> <<>>, branch |-> "none"]

(* --------------------------- the AI provider -------------------------- *)
\* what model.generate_content can do: return resp.text, or raise with str(e)
ProviderOutcomes ==
    { [raises |-> FALSE, text |-> <<" ", "o", "k", "\n">>],
      [raises |-> FALSE, text |-> <<>>],
      [raises |-> TRUE,  text |-> <<"4", "2", "9">>],
      [raises |-> TRUE,  text |-> <<"R", "a", "t", "e">>],
      [raises |-> TRUE,  text |-> <<"d", "o", "w", "n">>] }

\* the values time.time() is observed at
Times == {t \in 0..(MaxTimeSec * TicksPerSec) :
            (t % CooldownTicks) \in {0, 1, CooldownTicks - 1}}

(* ----------------------------- gemini_reply --------------------------- *)
NotConfiguredText == <<"(", "Hint unavailable: Gemini key not configured.)">>
CooldownText(wait) ==
    <<"(", "Cooling down ", ToString(wait), "s to respect free-tier limits...)">>
NoResponseText == <<"(", "No response from Gemini.)">>
RateLimitText == <<"(", "Free-tier limit hit; showing a built-in hint.)">>
ErrorText(msg) == <<"(", "Gemini error: ">> \o msg \o <<")">>

\* a rate-limit test that forgets msg.lower()
IsRateLimitCaseSensitive(msg) ==
    \/ Contains(<<"4", "2", "9">>, msg)
    \/ Contains(<<"r", "a", "t", "e">>, msg)

\* "429" in msg or "rate" in msg.lower()
IsRateLimit(msg) ==
    \/ Contains(<<"4", "2", "9">>, msg)
    \/ Contains(<<"r", "a", "t", "e">>, Lower(msg))

\* key = cache_key or prompt   (<<>> stands for None and for the empty string)
CacheKeyOf(prompt, cache_key) == IF cache_key = <<>> THEN prompt ELSE cache_key

\* a provider call that paces failures only: success leaves the cooldown alone
ProviderResultNoPacingOnSuccess(next_ok, now, out) ==
    IF ~out.raises
    THEN [text |-> IF Strip(out.text) = <<>> THEN NoResponseText ELSE Strip(out.text),
          next_hint_ok_ts |-> next_ok,
          kind |-> "ok"]
    ELSE IF IsRateLimit(out.text)
    THEN [text |-> RateLimitText,
          next_hint_ok_ts |-> now + CooldownTicks,
          kind |-> "rate"]
    ELSE [text |-> ErrorText(out.text),
          next_hint_ok_ts |-> next_ok,
          kind |-> "error"]

\* the try/except around generate_content: the text and the new cooldown
ProviderResult(next_ok, now, out) ==
    IF ~out.raises
    THEN [text |-> IF Strip(out.text) = <<>> THEN NoResponseText ELSE Strip(out.text),
          next_hint_ok_ts |-> now + CooldownTicks,
          kind |-> "ok"]
    ELSE IF IsRateLimit(out.text)
    THEN [text |-> RateLimitText,
          next_hint_ok_ts |-> now + CooldownTicks,
          kind |-> "rate"]
    ELSE [text |-> ErrorText(out.text),
          next_hint_ok_ts |-> next_ok,
          kind |-> "error"]

\* if key in st.session_state.gemini_cache
CacheHit(cache, key) == key \in DOMAIN cache

\* a cache that keeps real replies only: sentinels are not stored
CacheStoreSkipsSentinels(cache, key, text) ==
    IF StartsWithParen(text) THEN cache
    ELSE [k \in DOMAIN cache \cup {key} |-> IF k = key THEN text ELSE cache[k]]

\* st.session_state.gemini_cache[key] = text
CacheStore(cache, key, text) ==
    [k \in DOMAIN cache \cup {key} |-> IF k = key THEN text ELSE cache[k]]

\* a cooldown test with the comparison turned round
InCooldownInverted(now, next_ok) == now > next_ok

\* if now < next_ok
InCooldown(now, next_ok) == now < next_ok

\* wait = int(next_ok - now), in whole seconds
WaitSeconds(now, next_ok) == (next_ok - now) \div TicksPerSec

\* one gemini_reply call on state s; now is what time.time() returns if it is
\* reached, out is what the provider does if it is called
GeminiReplyCore(s, prompt, cache_key, now, out) ==
    LET key == CacheKeyOf(prompt, cache_key)
    IN  IF CacheHit(s.gemini_cache, key)
        THEN [text |-> s.gemini_cache[key], branch |-> "cached", s |-> s]
        ELSE IF ~s.gemini_ready
        THEN [text |-> NotConfiguredText, branch |-> "not_configured", s |-> s]
        ELSE IF InCooldown(now, s.next_hint_ok_ts)
        THEN [text |-> CooldownText(WaitSeconds(now, s.next_hint_ok_ts)),
              branch |-> "cooldown",
              s |-> [s EXCEPT !.clock = now]]
        ELSE LET r == ProviderResult(s.next_hint_ok_ts, now, out)
             IN  [text |-> r.text, branch |-> r.kind,
                  s |-> [s EXCEPT
                           !.clock = now,
                           !.next_hint_ok_ts = r.next_hint_ok_ts,
                           !.gemini_cache = CacheStore(s.gemini_cache, key, r.text),
                           !.provider_calls =
                               Append(s.provider_calls,
                                      [key |-> key, at |-> now, out |-> out])]]

\* gemini_reply, with the session's record of what it returned
GeminiReply(s, prompt, cache_key, now, out) ==
    LET c == GeminiReplyCore(s, prompt, cache_key, now, out)
        ret == [key |-> CacheKeyOf(prompt, cache_key), text |-> c.text,
                branch |-> c.branch]
    IN  [text |-> c.text,
         s |-> [c.s EXCEPT !.last_reply = ret,
                           !.replies = s.replies \cup {ret}]]

(* ------------------------------ helpers ------------------------------- *)
Max(a, b) == IF a >= b THEN a ELSE b
Min(a, b) == IF a <= b THEN a ELSE b
Rep(n, c) == [i \in 1..n |-> c]

Assistant(content) == [role |-> "assistant", content |-> content]
User(content) == [role |-> "user", content |-> content]

\* st.session_state.messages.append(...)
AppendMessage(s, m) == [s EXCEPT !.messages = Append(s.messages, m)]

\* badge(name, emoji): the label is appended unless it is already there
BadgeLabel(name, emoji) == emoji \o " " \o name

\* a badge that appends without looking
badge_always_appends(s, name, emoji) ==
    [s EXCEPT !.badges = Append(s.badges, BadgeLabel(name, emoji))]

\* a badge that replaces the list by the new label
badge_replaces(s, name, emoji) ==
    [s EXCEPT !.badges = <<BadgeLabel(name, emoji)>>]

badge(s, name, emoji) ==
    IF \E i \in 1..Len(s.badges) : s.badges[i] = BadgeLabel(name, emoji)
    THEN s
    ELSE [s EXCEPT !.badges = Append(s.badges, BadgeLabel(name, emoji))]

\* a module write that is forgotten
SetModuleForgotten(s, m) == s

\* st.session_state.module = m
SetModule(s, m) ==
    [s EXCEPT !.module = m, !.module_writes = Append(@, <<s.module, m>>)]

\* a progress_to that assigns instead of taking the maximum
progress_to_assigns(s, p) == [s EXCEPT !.progress = p]

\* progress_to(p)
progress_to(s, p) == [s EXCEPT !.progress = Max(s.progress, p)]

\* a coaching aside that does not look at the toggle
CoachIgnoresToggle(s, prompt, label, now, out) ==
    IF s.gemini_ready
    THEN LET r == GeminiReply(s, prompt, <<>>, now, out)
         IN  AppendMessage(r.s, Assistant(<<label>> \o r.text))
    ELSE s

\* the optional coaching aside of the handlers:
\* if AI_COACH_ENABLED and gemini_ready: messages.append(label + gemini_reply(prompt))
Coach(s, prompt, label, now, out) ==
    IF AI_COACH_ENABLED /\ s.gemini_ready
    THEN LET r == GeminiReply(s, prompt, <<>>, now, out)
         IN  AppendMessage(r.s, Assistant(<<label>> \o r.text))
    ELSE s

(* ------------------------------ Module 1 ------------------------------ *)
Greetings ==
    { <<"h", "i">>,
      <<"h", "e", "l", "l", "o">>,
      <<"h", "e", "y">>,
      <<"y", "o">>,
      <<"h", "o", "l", "a">>,
      <<"h", "e", "l", "p">>,
      <<"s", "t", "a", "r", "t">> }
Keywords ==
    { <<"n", "e", "t", "f", "l", "i", "x">>,
      <<"s", "p", "o", "t", "i", "f", "y">>,
      <<"r", "e", "c", "o", "m", "m", "e", "n", "d">>,
      <<"m", "a", "p", "s">>,
      <<"a", "u", "t", "o", "c", "o", "r", "r", "e", "c", "t">>,
      <<"a", "u", "t", "o", "c", "o", "m", "p", "l", "e", "t", "e">>,
      <<"y", "o", "u", "t", "u", "b", "e">> }

M1Greeting == <<"Hi! Type begin to start Module 1.">>
M1Intro == <<"Module 1: What is AI? Checkpoint: Name one everyday example of AI.">>
M1Quiz == <<"Nice! Recommendation engines are classic AI. Mini-Quiz: Reply with A, B, or C.">>
M1Correct == "Correct!"
M1Wrong == "Good try - the best answer is B."
M1Moving == " Progress saved. Moving to Module 2: Prompting Basics. Type anything to continue."
M1Other == <<"Type begin to start the course, or say something like Netflix recommendations for the checkpoint.">>

render_module_1(s, user_text, now, out) ==
    LET txt == Lower(Strip(user_text))
    IN  IF txt \in Greetings
        THEN [s |-> s, reply |-> M1Greeting]
        ELSE IF txt = <<"b", "e", "g", "i", "n">>
        THEN [s |-> badge(progress_to(s, 20), "Concept Spark", ":medal:"),
              reply |-> M1Intro]
        ELSE IF \E k \in Keywords : Contains(k, txt)
        THEN [s |-> Coach(progress_to(s, 40),
                          <<"Explain in one friendly sentence why recommendations are an example of AI.">>,
                          "Tutor: ", now, out),
              reply |-> M1Quiz]
        ELSE IF Upper(txt) \in {<<"A">>, <<"B">>, <<"C">>}
        THEN LET s1 == IF Upper(txt) = <<"B">>
                       THEN Coach([s EXCEPT !.quiz_correct = s.quiz_correct + 1],
                                  <<"In one sentence, praise a learner for selecting option B.">>,
                                  "Tutor: ", now, out)
                       ELSE Coach(s,
                                  <<"In one sentence, gently correct a learner who picked A or C.">>,
                                  "Tutor: ", now, out)
                 msg == IF Upper(txt) = <<"B">> THEN M1Correct ELSE M1Wrong
             IN  [s |-> SetModule(progress_to(s1, 50), 2),
                  reply |-> <<msg, M1Moving>>]
        ELSE [s |-> s, reply |-> M1Other]

(* ------------------------------ Module 2 ------------------------------ *)
M2Intro == <<"Module 2: Prompting Basics. Task: Rewrite this weak prompt to be specific.">>
M2Quiz == <<"Quick Check: Which prompt yields structured output? Reply with A or B.">>
M2Praise == <<"Tutor: Great pick - numbered steps create structure.">>
M2Close == <<"Tutor: Close. Asking for numbered steps (B) yields a tidy result.">>
M2Moving == <<"Moving to Module 3: Hands-On. Type anything to continue.">>
M2Empty == <<"Try adding audience, tone, and format.">>

\* a Module 2 handler whose intro test admits the threshold itself
render_module_2_intro_at_threshold(s, user_text, now, out) ==
    IF s.progress <= 60
    THEN [s |-> badge(progress_to(s, 60), "Prompt Explorer", ":magnifier:"),
          reply |-> M2Intro]
    ELSE LET attempt == Strip(user_text)
         IN  IF attempt # <<>> /\ Upper(attempt) \notin {<<"A">>, <<"B">>}
             THEN [s |-> progress_to(
                            Coach(s, <<"Rate this prompt for clarity, context, and format: ">> \o attempt,
                                  "Tutor review: ", now, out),
                            80),
                   reply |-> M2Quiz]
             ELSE IF Upper(attempt) \in {<<"A">>, <<"B">>}
             THEN LET s1 == IF Upper(attempt) = <<"B">>
                            THEN AppendMessage([s EXCEPT !.quiz_correct = s.quiz_correct + 1],
                                               Assistant(M2Praise))
                            ELSE AppendMessage(s, Assistant(M2Close))
                  IN  [s |-> progress_to(SetModule(s1, 3), 85),
                       reply |-> M2Moving]
             ELSE [s |-> s, reply |-> M2Empty]

render_module_2(s, user_text, now, out) ==
    IF s.progress < 60
    THEN [s |-> badge(progress_to(s, 60), "Prompt Explorer", ":magnifier:"),
          reply |-> M2Intro]
    ELSE LET attempt == Strip(user_text)
         IN  IF attempt # <<>> /\ Upper(attempt) \notin {<<"A">>, <<"B">>}
             THEN [s |-> progress_to(
                            Coach(s, <<"Rate this prompt for clarity, context, and format: ">> \o attempt,
                                  "Tutor review: ", now, out),
                            80),
                   reply |-> M2Quiz]
             ELSE IF Upper(attempt) \in {<<"A">>, <<"B">>}
             THEN LET s1 == IF Upper(attempt) = <<"B">>
                            THEN AppendMessage([s EXCEPT !.quiz_correct = s.quiz_correct + 1],
                                               Assistant(M2Praise))
                            ELSE AppendMessage(s, Assistant(M2Close))
                  IN  [s |-> progress_to(SetModule(s1, 3), 85),
                       reply |-> M2Moving]
             ELSE [s |-> s, reply |-> M2Empty]

(* ------------------------------ Module 3 ------------------------------ *)
M3Intro == <<"Module 3: Hands-On Practice. Pick a quick exercise (reply with 1, 2, or 3).">>
M3Other == <<"Reply with 1, 2, or 3 to pick an exercise, then type done when finished.">>
ExercisePrompt(choice) ==
    CASE choice = <<"1">> -> "Generate 5 product ideas for eco-friendly kitchen tools."
      [] choice = <<"2">> -> "Write a brief, empathetic apology for a delayed order; offer options to resolve."
      [] choice = <<"3">> -> "List 3 spreadsheet automations (cleaning, categorizing, summarizing)."

\* a report card whose empty stars forget the base of the category
ReportCardEmptyFromScore(q) ==
    <<"Nicely done. Locked Level: Applied AI Playbooks. Report Card (Preview)">>
    \o <<"Concepts: ">> \o Rep(Min(5, 3 + q), "*") \o Rep(Max(0, 5 - q), "o")
    \o <<"Prompt Craft: ">> \o Rep(Min(5, 2 + q), "*") \o Rep(Max(0, 5 - q), "o")
    \o <<"Applied Practice: ", "*", "*", "*", "o", "o">>
    \o <<"Consistency: ", "*", "*", "o", "o", "o">>
    \o <<"Enter your email to receive your badges + preview report.">>

\* the report card of the completion message: filled and empty stars
ReportCard(q) ==
    <<"Nicely done. Locked Level: Applied AI Playbooks. Report Card (Preview)">>
    \o <<"Concepts: ">> \o Rep(Min(5, 3 + q), "*") \o Rep(Max(0, 5 - (3 + q)), "o")
    \o <<"Prompt Craft: ">> \o Rep(Min(5, 2 + q), "*") \o Rep(Max(0, 5 - (2 + q)), "o")
    \o <<"Applied Practice: ", "*", "*", "*", "o", "o">>
    \o <<"Consistency: ", "*", "*", "o", "o", "o">>
    \o <<"Enter your email to receive your badges + preview report.">>

render_module_3(s, user_text, now, out) ==
    IF s.progress < 90
    THEN [s |-> badge(progress_to(s, 90), "AI Tinkerer", ":tools:"),
          reply |-> M3Intro]
    ELSE LET choice == Strip(user_text)
         IN  IF choice \in {<<"1">>, <<"2">>, <<"3">>}
             THEN LET s1 == progress_to(s, 95)
                      r == GeminiReply(s1, <<"Give one 15-word tip to do this well: ",
                                             ExercisePrompt(choice)>>, <<>>, now, out)
                  IN  IF s1.gemini_ready /\ AI_COACH_ENABLED
                      THEN [s |-> r.s,
                            reply |-> <<"Great choice! Try this: ", ExercisePrompt(choice)>>
                                      \o <<"Tutor tip: ">> \o r.text
                                      \o <<"When you're done, type done.">>]
                      ELSE [s |-> s1,
                            reply |-> <<"Great choice! Try this: ", ExercisePrompt(choice)>>
                                      \o <<"When you're done, type done.">>]
             ELSE IF Lower(choice) = <<"d", "o", "n", "e">>
             THEN [s |-> progress_to(s, 100),
                   reply |-> ReportCard(s.quiz_correct)]
             ELSE [s |-> s, reply |-> M3Other]

(* -------------------------------- route ------------------------------- *)
RouteFallThrough == <<"Say begin to start.">>

\* a router that answers the first input itself and hands nothing on
route_discards_first(s, user_text, now, out) ==
    IF s.module = 0
    THEN [s |-> SetModule(s, 1), reply |-> M1Greeting]
    ELSE IF s.module = 1
    THEN render_module_1(s, user_text, now, out)
    ELSE IF s.module = 2
    THEN render_module_2(s, user_text, now, out)
    ELSE IF s.module = 3
    THEN render_module_3(s, user_text, now, out)
    ELSE [s |-> s, reply |-> RouteFallThrough]

\* a router that forgets to leave the welcome state
route_stays_welcome(s, user_text, now, out) ==
    IF s.module \in {0, 1}
    THEN render_module_1(s, user_text, now, out)
    ELSE IF s.module = 2
    THEN render_module_2(s, user_text, now, out)
    ELSE IF s.module = 3
    THEN render_module_3(s, user_text, now, out)
    ELSE [s |-> s, reply |-> RouteFallThrough]

route(s, user_text, now, out) ==
    IF s.module = 0
    THEN render_module_1(SetModule(s, 1), user_text, now, out)
    ELSE IF s.module = 1
    THEN render_module_1(s, user_text, now, out)
    ELSE IF s.module = 2
    THEN render_module_2(s, user_text, now, out)
    ELSE IF s.module = 3
    THEN render_module_3(s, user_text, now, out)
    ELSE [s |-> s, reply |-> RouteFallThrough]

(* -------------------------------- hints ------------------------------- *)
current_hint_prompt(m) ==
    IF m \in {0, 1}
    THEN <<"Give one short hint to help a beginner name an everyday example of AI they use.">>
    ELSE IF m = 2
    THEN <<"Give one short hint on improving a prompt with audience, tone, and output format.">>
    ELSE IF m = 3
    THEN <<"Give one short hint for choosing a quick hands-on AI exercise and completing it.">>
    ELSE <<"Give a concise study hint for learning basic AI concepts.">>

\* m = max(1, min(3, module or 1)); PREWRITTEN_HINTS.get(m, ...)
fallback_hint_for_current_module(m) ==
    LET c == Max(1, Min(3, IF m = 0 THEN 1 ELSE m))
    IN  CASE c = 1 -> "Think of apps that recommend or autocomplete."
          [] c = 2 -> "Add audience, tone, and output format."
          [] c = 3 -> "Pick one short task and try it."
          [] OTHER -> "Keep it short and specific."

HintKey(m) == <<"hint_m", ToString(m)>>

(* ------------------------- initial state ------------------------------ *)
\* the seed message
Welcome == Assistant(<<"Welcome! Type begin to start your AI journey.">>)

\* init_state(), configure_gemini() and the seed message of the first run;
\* gemini_ready is whether a usable GEMINI_API_KEY is configured
Init ==
    /\ progress = 0
    /\ badges = <<>>
    /\ module = 0
    /\ messages = <<Welcome>>
    /\ quiz_correct = 0
    /\ email_captured = FALSE
    /\ gemini_ready \in BOOLEAN
    /\ gemini_cache = EmptyMap
    /\ next_hint_ok_ts = 0
    /\ clock = 0
    /\ provider_calls = <<>>
    /\ last_reply = NoReply
    /\ replies = {}
    /\ module_writes = <<>>

(* ------------------------------- inputs ------------------------------- *)
\* what the learner types into the chat box: a short list that walks the
\* whole course, a longer one that reaches every branch of the handlers, and
\* a wide one with the spellings the handlers normalise
QuickInputs ==
    { <<" ", "b">>,
      <<"1">>,
      <<"D", "o", "n", "e", " ">> }
Inputs ==
    { <<"b", "e", "g", "i", "n">>,
      <<"I", " ", "u", "s", "e", " ", "N", "e", "t", "f", "l", "i", "x">>,
      <<" ", "b">>,
      <<"A">>,
      <<"1">>,
      <<"D", "o", "n", "e", " ">> }
WideInputs ==
    { <<"b", "e", "g", "i", "n">>,
      <<" ", "B", "e", "g", "i", "n", "\n">>,
      <<"h", "i">>,
      <<"H", "E", "L", "L", "O", " ">>,
      <<"I", " ", "u", "s", "e", " ", "N", "e", "t", "f", "l", "i", "x">>,
      <<"y", "o", "u", "t", "u", "b", "e">>,
      <<"a">>,
      <<"A", "\t">>,
      <<" ", "b">>,
      <<"B">>,
      <<"c">>,
      <<"C", " ">>,
      <<"a", "b">>,
      <<" ">>,
      <<"2">>,
      <<"w", "h", "a", "t", "?">> }
\* what the learner types into the email field
Emails == { <<>>, <<"a", "@", "b">>, <<"a", "b">> }

NumUser(msgs) == Cardinality({i \in 1..Len(msgs) : msgs[i].role = "user"})
IsHint(m) == m.role = "assistant" /\ m.content[1] = "Hint: "
NumHints(msgs) == Cardinality({i \in 1..Len(msgs) : IsHint(msgs[i])})

(* ------------------------------- actions ------------------------------ *)
\* what time.time() can return next, and what the provider can do, for a call
\* that reaches them; a call that reaches neither reads neither
ClockReads(reached) == IF reached THEN {t \in Times : t >= clock} ELSE {clock}
ProviderDoes(reached) ==
    IF reached THEN ProviderOutcomes ELSE {[raises |-> FALSE, text |-> <<>>]}

\* the chat input: if user_input: append it, route it, append the reply, rerun
ChatInput(user_input) ==
    /\ user_input # <<>>
    /\ \E now \in ClockReads(AI_COACH_ENABLED /\ gemini_ready),
          out \in ProviderDoes(AI_COACH_ENABLED /\ gemini_ready) :
          LET r == route([AppendMessage(State, User(user_input))
                             EXCEPT !.module_writes = <<>>],
                         user_input, now, out)
          IN  Commit(AppendMessage(r.s, Assistant(r.reply)))

\* the 'Get a hint' button, shown once Module 1 has begun
GetHint ==
    /\ module >= 1
    /\ \E now \in ClockReads(gemini_ready /\ HintKey(module) \notin DOMAIN gemini_cache),
          out \in ProviderDoes(gemini_ready /\ HintKey(module) \notin DOMAIN gemini_cache) :
          LET r == GeminiReply(State, current_hint_prompt(module), HintKey(module), now, out)
              hint == IF StartsWithParen(r.text)
                      THEN <<fallback_hint_for_current_module(module), " ">> \o r.text
                      ELSE r.text
          IN  Commit(AppendMessage(r.s, Assistant(<<"Hint: ">> \o hint)))

\* a reset whose key list misses the AI keys: the cache and the cooldown stay
ResetDemoKeepsAIState ==
    /\ progress' = 0
    /\ badges' = <<>>
    /\ module' = 0
    /\ messages' = <<Welcome>>
    /\ quiz_correct' = 0
    /\ email_captured' = FALSE
    /\ provider_calls' = <<>>
    /\ last_reply' = NoReply
    /\ replies' = {}
    /\ module_writes' = <<>>
    /\ UNCHANGED <<gemini_ready, clock, gemini_cache, next_hint_ok_ts>>

\* the 'Reset demo' button: the session keys are popped, then the rerun's
\* init_state() and seed message restore the defaults
ResetDemo ==
    /\ progress' = 0
    /\ badges' = <<>>
    /\ module' = 0
    /\ messages' = <<Welcome>>
    /\ quiz_correct' = 0
    /\ email_captured' = FALSE
    /\ gemini_cache' = EmptyMap
    /\ next_hint_ok_ts' = 0
    /\ provider_calls' = <<>>
    /\ last_reply' = NoReply
    /\ replies' = {}
    /\ module_writes' = <<>>
    /\ UNCHANGED <<gemini_ready, clock>>

\* the 'Send me my goodies' button
SendEmail(email) ==
    /\ email # <<>> /\ Contains(<<"@">>, email)
    /\ email_captured' = TRUE
    /\ UNCHANGED <<progress, badges, module, messages, quiz_correct, gemini_ready,
                   gemini_cache, next_hint_ok_ts, clock, provider_calls,
                   last_reply, replies, module_writes>>

\* the whole program, the learner taking the quick road through the course
Next ==
    \/ Len(messages) + 2 <= MaxMsgs /\ \E x \in QuickInputs : ChatInput(x)
    \/ Len(messages) + 1 <= MaxMsgs /\ NumHints(messages) < MaxHints /\ GetHint
    \/ ResetDemo
    \/ \E e \in Emails : SendEmail(e)

Spec == Init /\ [][Next]_vars

\* the dialogue engine under every kind of input
NextChat ==
    \/ Len(messages) + 2 <= MaxMsgs /\ \E x \in Inputs : ChatInput(x)
    \/ ResetDemo

SpecChat == Init /\ [][NextChat]_vars

\* the first inputs of a session, in every spelling
NextStart ==
    \/ NumUser(messages) < MaxWideInputs /\ \E x \in WideInputs : ChatInput(x)
    \/ ResetDemo

SpecStart == Init /\ [][NextStart]_vars

(* ---------------- the AI hint client on its own ----------------------- *)
Prompts == { <<"p1">> }
CacheKeys == { <<>>, <<"k1">> }

\* one call gemini_reply(prompt, cache_key=cache_key)
GeminiReplyCall(prompt, cache_key) ==
    \E now \in ClockReads(TRUE), out \in ProviderOutcomes :
        Commit(GeminiReply(State, prompt, cache_key, now, out).s)

NextAI ==
    \/ \E p \in Prompts, k \in CacheKeys : GeminiReplyCall(p, k)
    \/ ResetDemo

SpecAI == Init /\ [][NextAI]_vars

(* ===================== properties of the AI hint client ================ *)
\* the branches of gemini_reply that store what they return
StoringBranches == {"cached", "ok", "rate", "error"}
\* the provider errors of ProviderOutcomes whose message contains "429" or,
\* in any case, "rate"
RateLimitMessages == { <<"4", "2", "9">>, <<"R", "a", "t", "e">> }
OtherErrorMessages == { <<"d", "o", "w", "n">> }
LastCall == provider_calls[Len(provider_calls)]
\* this step is a gemini_reply call that called the provider
Invokes == provider_calls' # provider_calls /\ provider_calls' # <<>>
\* this step is a gemini_reply call (it returned something new to the session)
Returns == last_reply' # NoReply /\ (last_reply' # last_reply \/ clock' # clock)

\* C3: within one session the provider is invoked at most once for any key,
\* whatever other keys are requested in between, however the clock advances,
\* and whether the first invocation succeeded or failed.
C3_AtMostOneInvocationPerKey ==
    \A i, j \in 1..Len(provider_calls) :
        provider_calls[i].key = provider_calls[j].key => i = j

\* a key whose invocation failed is asked for again after another key was
\* invoked a cooldown later, with no cooldown pending: only the cache keeps
\* the provider from being called again
C3_Witness ==
    /\ Len(provider_calls) = 2
    /\ provider_calls[1].out.raises
    /\ provider_calls[2].at >= provider_calls[1].at + CooldownTicks
    /\ last_reply.key = provider_calls[1].key
    /\ last_reply.branch = "cached"
    /\ gemini_ready /\ next_hint_ok_ts <= clock

C6_NoInvocationInCooldown ==
    [][ /\ Invokes => LastCall'.at >= next_hint_ok_ts
        /\ ( /\ Returns
             /\ last_reply'.key \notin DOMAIN gemini_cache
             /\ gemini_ready
             /\ clock' < next_hint_ok_ts )
           => /\ last_reply'.branch = "cooldown"
              /\ \E w \in 0..HINT_COOLDOWN_SEC :
                    /\ w * TicksPerSec <= next_hint_ok_ts - clock'
                    /\ next_hint_ok_ts - clock' < (w + 1) * TicksPerSec
                    /\ last_reply'.text = CooldownText(w)
              /\ UNCHANGED <<provider_calls, gemini_cache, next_hint_ok_ts>>
      ]_vars

\* a call arrived half a second before the cooldown ran out and was refused
C6_Witness ==
    /\ last_reply.branch = "cooldown"
    /\ last_reply.text = CooldownText(0)
    /\ clock < next_hint_ok_ts
    /\ Len(provider_calls) = 1

\* C7 as claimed: two successive provider invocations of one session are at
\* least HINT_COOLDOWN_SEC apart, whatever the outcome of the earlier one.
C7_InvocationsSpaced_Original ==
    \A i \in 1..(Len(provider_calls) - 1) :
        provider_calls[i + 1].at - provider_calls[i].at
            >= HINT_COOLDOWN_SEC * TicksPerSec

\* C7 as amended: a provider invocation that succeeded or raised a rate-limit
\* error is followed by no other invocation of the session for
\* HINT_COOLDOWN_SEC seconds; an invocation that raised any other error leaves
\* cooldown_until alone and may be followed at once.
C7_InvocationsSpaced ==
    \A i, j \in 1..Len(provider_calls) :
        /\ i < j
        /\ \/ ~provider_calls[i].out.raises
           \/ provider_calls[i].out.text \in RateLimitMessages
        => provider_calls[j].at - provider_calls[i].at
              >= HINT_COOLDOWN_SEC * TicksPerSec

\* a successful invocation, and the next one a full cooldown later
C7_Witness ==
    /\ Len(provider_calls) = 2
    /\ ~provider_calls[1].out.raises
    /\ provider_calls[2].at = provider_calls[1].at + HINT_COOLDOWN_SEC * TicksPerSec

\* C8: a provider call that raises makes gemini_reply return a sentinel: for a
\* rate-limit error the free-tier sentinel, with cooldown_until set to now +
\* HINT_COOLDOWN_SEC; for any other error the error sentinel, cooldown_until
\* unchanged; the sentinel is cached under the key, and a later call with the
\* key returns it without invoking the provider.
C8_ErrorsBecomeSentinels ==
    [][ /\ (Invokes /\ LastCall'.out.raises) =>
              /\ last_reply'.key = LastCall'.key
              /\ last_reply'.key \in DOMAIN gemini_cache'
              /\ gemini_cache'[last_reply'.key] = last_reply'.text
              /\ LastCall'.out.text \in RateLimitMessages =>
                    /\ last_reply'.text = RateLimitText
                    /\ next_hint_ok_ts' = LastCall'.at + HINT_COOLDOWN_SEC * TicksPerSec
              /\ LastCall'.out.text \in OtherErrorMessages =>
                    /\ last_reply'.text = <<"(", "Gemini error: ">> \o LastCall'.out.text \o <<")">>
                    /\ next_hint_ok_ts' = next_hint_ok_ts
        /\ (Returns /\ \E c \in {provider_calls[i] : i \in 1..Len(provider_calls)} :
                          c.key = last_reply'.key /\ c.out.raises) =>
              /\ provider_calls' = provider_calls
              /\ last_reply'.text = gemini_cache[last_reply'.key]
              /\ StartsWithParen(last_reply'.text)
      ]_vars

\* a call raised "Rate", and its key was later answered from the cache
C8_Witness ==
    /\ last_reply.branch = "cached"
    /\ last_reply.text = RateLimitText
    /\ \E i \in 1..Len(provider_calls) :
          /\ provider_calls[i].key = last_reply.key
          /\ provider_calls[i].out.text = <<"R", "a", "t", "e">>

(* ===================== properties of the dialogue ====================== *)
\* this step handles one chat input, UserInput
ChatStep == NumUser(messages') = NumUser(messages) + 1
UserInput == messages'[Len(messages) + 1].content
\* the fields of the session a handler reads and writes
Session(s) ==
    <<s.progress, s.badges, s.module, s.messages, s.quiz_correct, s.email_captured,
      s.gemini_ready, s.gemini_cache, s.next_hint_ok_ts>>

\* C1: progress never decreases from one step to the next, whether the step is
\* a chat input, a hint press or an email submission (a reset apart), and it
\* is always within 0..100.
C1_ProgressMonotone ==
    /\ [](progress \in 0..100)
    /\ [][ResetDemo \/ progress' >= progress]_vars

\* the course was completed, with a hint press and an email submission on
\* the way
C1_Witness ==
    /\ progress = 100
    /\ NumHints(messages) = 1
    /\ email_captured
    /\ messages[Len(messages)].content = ReportCard(quiz_correct)

\* C2: module is always one of 0, 1, 2, 3; no step but a reset lowers it;
\* every assignment to module raises it by exactly 1; and route never takes
\* its fall-through branch.
C2_ModuleStepsByOne ==
    /\ [](module \in {0, 1, 2, 3})
    /\ [](\A i \in 1..Len(module_writes) :
             module_writes[i][2] = module_writes[i][1] + 1)
    /\ [](\A i \in 1..Len(messages) : messages[i].content # RouteFallThrough)
    /\ [][ResetDemo \/ module' >= module]_vars

\* the first input of a session was a quiz answer: the router and the
\* Module 1 handler both assigned module in the same call
C2_Witness ==
    /\ module = 2
    /\ module_writes = << <<0, 1>>, <<1, 2>> >>

\* C9: the first input of a session is handled as a Module 1 command: route
\* with module = 0 gives the reply and the state the Module 1 handler gives
\* for the same input with module = 1; "begin" on a fresh session gives
\* progress >= 20, the Concept Spark badge and module = 1.
C9_FirstInputIsProcessed ==
    [][ (ChatStep /\ module = 0) =>
          LET h == render_module_1(
                       [AppendMessage(State, User(UserInput)) EXCEPT !.module = 1],
                       UserInput, clock, [raises |-> FALSE, text |-> <<>>])
          IN  /\ Session(State') = Session(AppendMessage(h.s, Assistant(h.reply)))
              /\ UserInput = <<"b", "e", "g", "i", "n">> =>
                    /\ progress' >= 20
                    /\ \E i \in 1..Len(badges') : badges'[i] = ":medal: Concept Spark"
                    /\ module' = 1
      ]_vars

\* "begin" was the first input of the session
C9_Witness ==
    /\ NumUser(messages) = 1
    /\ messages[2] = User(<<"b", "e", "g", "i", "n">>)
    /\ messages[3] = Assistant(M1Intro)
    /\ progress = 20 /\ module = 1 /\ badges = <<":medal: Concept Spark">>

\* the inputs of WideInputs that are exactly B, and exactly A or C, once
\* trimmed and compared without case
AnswersB == { <<" ", "b">>, <<"B">> }
AnswersAC == { <<"a">>, <<"A", "\t">>, <<"c">>, <<"C", " ">> }

\* C10: with module = 1, an input that is exactly A, B or C (trimmed, in
\* either case) moves the session to module 2 with progress = max(old
\* progress, 50); quiz_correct goes up by exactly 1 for B and stays for A, C.
C10_Module1Quiz ==
    [][ (ChatStep /\ module = 1 /\ UserInput \in AnswersB \cup AnswersAC) =>
          /\ module' = 2
          /\ progress' = (IF progress >= 50 THEN progress ELSE 50)
          /\ UserInput \in AnswersB => quiz_correct' = quiz_correct + 1
          /\ UserInput \in AnswersAC => quiz_correct' = quiz_correct
      ]_vars

\* " b" answered the quiz of Module 1 after the checkpoint
C10_Witness ==
    /\ NumUser(messages) = 3
    /\ messages[Len(messages) - 1] = User(<<" ", "b">>)
    /\ messages[Len(messages) - 2] = Assistant(M1Quiz)
    /\ module = 2 /\ progress = 50 /\ quiz_correct = 1

\* the reply of the latest chat input
LastReply == messages[Len(messages)].content
\* where a token stands in a text
IndexOf(text, tok) == CHOOSE i \in 1..Len(text) : text[i] = tok
\* the stars of a report card between two of its headings
StarsBetween(text, from, to) ==
    SubSeq(text, IndexOf(text, from) + 1, IndexOf(text, to) - 1)
\* five stars, the first n of them filled
FiveStars(n) == [i \in 1..5 |-> IF i <= n THEN "*" ELSE "o"]
\* the inputs of Inputs that are "done" once trimmed and lowered
DoneInputs == { <<"D", "o", "n", "e", " ">> }

\* C11: in module 3 with the intro shown (progress >= 90), "done" (trimmed,
\* in any case) sets progress to exactly 100 and leaves module at 3, and the
\* report card shows min(5, 3 + quiz_correct) filled stars for Concepts and
\* min(5, 2 + quiz_correct) for Prompt Craft, each filled up to 5 stars with
\* empty ones, for every reachable quiz_correct.
C11_DoneReportCard ==
    [][ (ChatStep /\ module = 3 /\ progress >= 90 /\ UserInput \in DoneInputs) =>
          /\ progress' = 100
          /\ module' = 3
          /\ quiz_correct' = quiz_correct
          /\ quiz_correct \in {0, 1, 2}
          /\ StarsBetween(LastReply', "Concepts: ", "Prompt Craft: ")
                = FiveStars(IF 3 + quiz_correct <= 5 THEN 3 + quiz_correct ELSE 5)
          /\ StarsBetween(LastReply', "Prompt Craft: ", "Applied Practice: ")
                = FiveStars(IF 2 + quiz_correct <= 5 THEN 2 + quiz_correct ELSE 5)
      ]_vars

\* the course was completed with both quizzes right: five filled stars for
\* Concepts, four and an empty one for Prompt Craft
C11_Witness ==
    /\ progress = 100 /\ module = 3 /\ quiz_correct = 2
    /\ messages[Len(messages) - 1] = User(<<"D", "o", "n", "e", " ">>)
    /\ StarsBetween(LastReply, "Concepts: ", "Prompt Craft: ") = <<"*", "*", "*", "*", "*">>
    /\ StarsBetween(LastReply, "Prompt Craft: ", "Applied Practice: ")
          = <<"*", "*", "*", "*", "o">>

\* C12: the badge list never holds a label twice, however often a badge is
\* awarded again, and between resets every step leaves the old list as a
\* prefix of the new one.
C12_BadgesUniqueAppendOnly ==
    /\ [](\A i, j \in 1..Len(badges) : badges[i] = badges[j] => i = j)
    /\ [][ResetDemo \/ (/\ Len(badges') >= Len(badges)
                        /\ SubSeq(badges', 1, Len(badges)) = badges)]_vars

\* "begin" was typed twice and the badge is there once
C12_Witness ==
    /\ NumUser(messages) = 2
    /\ messages[2] = User(<<"b", "e", "g", "i", "n">>)
    /\ messages[4] = User(<<"b", "e", "g", "i", "n">>)
    /\ badges = <<":medal: Concept Spark">>

\* a step that clears what only 'Reset demo' clears
ResetStep ==
    \/ Len(messages') < Len(messages)
    \/ email_captured /\ ~email_captured'
    \/ progress' < progress
    \/ DOMAIN gemini_cache' # DOMAIN gemini_cache /\ DOMAIN gemini_cache' = {}

\* C13: from any reachable state 'Reset demo' gives the initial session:
\* progress 0, no badges, module 0, the welcome message alone, quiz_correct 0,
\* email_captured false, an empty AI cache and no cooldown; ai_ready is kept.
C13_ResetRestoresInitial ==
    /\ [](ENABLED ResetDemo)
    /\ [][ ResetStep =>
             /\ progress' = 0
             /\ badges' = <<>>
             /\ module' = 0
             /\ messages' = <<[role |-> "assistant",
                               content |-> <<"Welcome! Type begin to start your AI journey.">>]>>
             /\ quiz_correct' = 0
             /\ email_captured' = FALSE
             /\ DOMAIN gemini_cache' = {}
             /\ next_hint_ok_ts' = 0
             /\ gemini_ready' = gemini_ready
       ]_vars

\* a session that had called the provider was reset: the clock has moved,
\* the cache is empty and no cooldown is pending
C13_Witness ==
    /\ clock > 0 /\ gemini_ready
    /\ messages = <<Welcome>>
    /\ progress = 0 /\ module = 0 /\ badges = <<>> /\ quiz_correct = 0
    /\ ~email_captured
    /\ DOMAIN gemini_cache = {} /\ next_hint_ok_ts = 0

\* the first inputs that answer the Module 1 quiz
QuizAnswers == AnswersB \cup AnswersAC

\* C14: no single user input advances the learner by more than one module:
\* module after one route call is module before it or that plus one.
C14_OneModulePerInput_Original ==
    [][ChatStep => module' \in {module, module + 1}]_vars

\* what route does instead: past the welcome state one call raises module by
\* at most one, but on the first input of a session the router sets module to
\* 1 and hands the same input to the Module 1 handler, so a first input that
\* answers the quiz (A, B or C) ends in module 2, every other one in module 1.
RouteModuleSteps ==
    [][ChatStep =>
          IF module = 0
          THEN module' = (IF UserInput \in QuizAnswers THEN 2 ELSE 1)
          ELSE module' \in {module, module + 1}
      ]_vars

\* the first input of the session was a quiz answer and module is 2
FirstInputSkipsModule1 ==
    /\ NumUser(messages) = 1
    /\ messages[2].content \in QuizAnswers
    /\ module = 2
    /\ module_writes = <<<<0, 1>>, <<1, 2>>>>

\* how many messages of the log carry a text
NumOf(msgs, text) == Cardinality({i \in 1..Len(msgs) : msgs[i] = Assistant(text)})

\* C15: the intro branch of Module 2 (progress < 60) is taken on the first
\* input handled in module 2 and never again, and that of Module 3
\* (progress < 90) likewise: module 2 is entered below 60 and module 3 below
\* 90, and the branch raises progress to its threshold.
C15_IntroOncePerVisit ==
    /\ [](/\ module <= 1 => NumOf(messages, M2Intro) = 0
          /\ module = 2 => NumOf(messages, M2Intro) = (IF progress < 60 THEN 0 ELSE 1)
          /\ module = 3 => NumOf(messages, M2Intro) = 1
          /\ module <= 2 => NumOf(messages, M3Intro) = 0
          /\ module = 3 => NumOf(messages, M3Intro) = (IF progress < 90 THEN 0 ELSE 1))
    /\ [][ChatStep =>
            /\ (module' = 2 /\ module # 2) => progress' < 60
            /\ (module' = 3 /\ module # 3) => progress' < 90
            /\ (module = 2 /\ progress < 60) =>
                  (LastReply' = M2Intro /\ progress' = 60 /\ module' = 2)
            /\ (module = 2 /\ progress >= 60) => LastReply' # M2Intro
            /\ (module = 3 /\ progress < 90) =>
                  (LastReply' = M3Intro /\ progress' = 90 /\ module' = 3)
            /\ (module = 3 /\ progress >= 90) => LastReply' # M3Intro
       ]_vars

\* both intros were shown and an input after the Module 3 intro was handled
C15_Witness ==
    /\ module = 3 /\ progress = 95
    /\ NumOf(messages, M2Intro) = 1
    /\ NumOf(messages, M3Intro) = 1
    /\ LastReply # M3Intro

\* C16: completion is absorbing: once progress is 100, every later chat
\* input, hint press or email submission (anything but a reset) leaves
\* progress at 100 and module at 3, and badges and quiz_correct as they were.
C16_CompletionAbsorbing ==
    /\ [](progress = 100 => module = 3)
    /\ [][ResetDemo \/ (progress = 100 =>
                           /\ progress' = 100
                           /\ module' = 3
                           /\ badges' = badges
                           /\ quiz_correct' = quiz_correct)
       ]_vars

\* the report card was shown, and then a hint was asked for and an email sent
C16_Witness ==
    /\ progress = 100 /\ module = 3
    /\ Len(messages) >= 3
    /\ messages[Len(messages) - 1].content[1]
          = "Nicely done. Locked Level: Applied AI Playbooks. Report Card (Preview)"
    /\ IsHint(messages[Len(messages)])
    /\ email_captured

\* a step of the 'Get a hint' button: the log grows and ends with a hint
HintStep == Len(messages') > Len(messages) /\ IsHint(messages'[Len(messages')])
\* a step of the chat input: the log grows by a user message and what follows
UserStep == Len(messages') > Len(messages) /\ messages'[Len(messages) + 1].role = "user"

\* C17: a 'Get a hint' press, possible only when module >= 1, changes only
\* the AI cache and the cooldown and appends exactly one assistant message:
\* progress, badges, module, quiz_correct and email_captured stay; and with
\* AI_COACH_ENABLED false a chat input never invokes the provider and leaves
\* the AI cache and the cooldown as they were.
C17_DisjointWriters ==
    [][ /\ HintStep =>
             /\ module >= 1
             /\ messages' = Append(messages, messages'[Len(messages')])
             /\ messages'[Len(messages')].role = "assistant"
             /\ <<progress, badges, module, quiz_correct, email_captured>>'
                   = <<progress, badges, module, quiz_correct, email_captured>>
        /\ UserStep =>
             /\ provider_calls' = provider_calls
             /\ gemini_cache' = gemini_cache
             /\ next_hint_ok_ts' = next_hint_ok_ts
      ]_vars

\* a hint went to the provider, which was rate-limited: the cache and the
\* cooldown were written, and a chat input was handled after it
C17_Witness ==
    /\ gemini_ready
    /\ NumHints(messages) = 1
    /\ Len(provider_calls) = 1
    /\ DOMAIN gemini_cache # {}
    /\ next_hint_ok_ts > 0
    /\ messages[Len(messages) - 1].role = "user"

\* C18: module and progress go together: progress is 0 in module 0, one of
\* 0, 20, 40 in module 1, one of 50, 60, 80 in module 2 and one of 85, 90, 95,
\* 100 in module 3; progress is 100 only in module 3.
C18_ProgressByModule ==
    /\ module \in 0..3
    /\ module = 0 => progress = 0
    /\ module = 1 => progress \in {0, 20, 40}
    /\ module = 2 => progress \in {50, 60, 80}
    /\ module = 3 => progress \in {85, 90, 95, 100}
    /\ progress = 100 => module = 3

\* Module 1 was walked through (intro, keyword step), and module 3 was
\* entered from the Module 2 quiz without a rewrite attempt, at 85
C18_Witness ==
    /\ module = 3 /\ progress = 85
    /\ \E i \in 1..Len(messages) : messages[i] = Assistant(M1Intro)
    /\ \E i \in 1..Len(messages) :
          /\ messages[i].role = "user"
          /\ Contains(<<"n", "e", "t", "f", "l", "i", "x">>, Lower(messages[i].content))
    /\ \A i \in 1..Len(messages) : messages[i] # Assistant(M2Quiz)

\* C19: quiz_correct never decreases between resets; it is 0 while
\* module <= 1, at most 1 in module 2 and at most 2 in module 3, so the report
\* card's 3 + quiz_correct is at most 5 and 2 + quiz_correct at most 4.
C19_QuizCorrectBounded ==
    /\ [](/\ module <= 1 => quiz_correct = 0
          /\ module = 2 => quiz_correct \in {0, 1}
          /\ module = 3 => quiz_correct \in {0, 1, 2}
          /\ 3 + quiz_correct <= 5
          /\ 2 + quiz_correct <= 4)
    /\ [][ResetDemo \/ quiz_correct' >= quiz_correct]_vars

\* both quizzes were answered B
C19_Witness ==
    /\ module = 3 /\ quiz_correct = 2
    /\ \E i \in 1..Len(messages) : messages[i] = Assistant(M2Praise)

\* C20: the Prompt Explorer badge is in the list exactly when progress >= 60
\* and the AI Tinkerer badge exactly when progress >= 90; a completed session
\* holds both.
C20_BadgesMatchProgress ==
    LET Has(label) == \E i \in 1..Len(badges) : badges[i] = label
    IN  /\ Has(":magnifier: Prompt Explorer") <=> progress >= 60
        /\ Has(":tools: AI Tinkerer") <=> progress >= 90
        /\ progress = 100 => (Has(":magnifier: Prompt Explorer") /\ Has(":tools: AI Tinkerer"))

\* a session completed without "begin": the two later badges and no other
C20_Witness ==
    /\ progress = 100
    /\ badges = <<":magnifier: Prompt Explorer", ":tools: AI Tinkerer">>

====
